---- MODULE Spec2Model ----
(***************************************************************************)
(* DocumentSelection (packages/ckeditor5-engine/src/model/                 *)
(* documentselection.js): the selection of a model document, its attribute *)
(* map, the attribute resolution pass and the attribute store kept on an   *)
(* empty parent element under the key prefix 'selection:'.                 *)
(*                                                                         *)
(* The document tree is two sibling containers, P1 and P2, each holding a  *)
(* flat list of children.  A child is a character (CharacterProxy, with    *)
(* its own attributes) or an empty element.  Strings are tuples of         *)
(* one-character strings, so that prefixing, indexOf and substr are        *)
(* computed, not assumed.  A Map is a function from its keys to values.    *)
(***************************************************************************)
EXTENDS Integers, Sequences, FiniteSets, TLC

\* ------------------------------------------------------------------ bounds
MaxQueue == 1
MaxRanges == 2
MaxChildren == 1
MaxBatch == 2
MaxDocLen == 4

\* --------------------------------------------------------------- constants
\* const storePrefix = 'selection:';
storePrefix == << "s", "e", "l", "e", "c", "t", "i", "o", "n", ":" >>

KeyB == << "b" >>
KeyI == << "i" >>
\* an attribute of the element itself, not a stored selection attribute:
\* 'xselection:b' holds the prefix, but not at index 0
KeyOwn == << "x", "s", "e", "l", "e", "c", "t", "i", "o", "n", ":", "b" >>

Containers == { "P1", "P2" }

\* ------------------------------------------------------------------- maps
EmptyMap == << >>

MapSet(m, k, v) == [ x \in (DOMAIN m) \cup { k } |-> IF x = k THEN v ELSE m[x] ]

MapDelete(m, k) == [ x \in (DOMAIN m) \ { k } |-> m[x] ]

\* new Map( iterable of [ key, value ] ): later entries overwrite earlier ones
RECURSIVE MapFromPairs(_)
MapFromPairs(pairs) ==
    IF pairs = << >> THEN EmptyMap
    ELSE LET n == Len(pairs)
         IN  MapSet(MapFromPairs(SubSeq(pairs, 1, n - 1)), pairs[n][1], pairs[n][2])

\* toMap( attrs ): a fresh Map holding the entries of attrs
toMap(pairs) == MapFromPairs(pairs)

\* ------------------------------------------------------------------ nodes
Elem == [ text |-> FALSE, attrs |-> EmptyMap ]
Char(m) == [ text |-> TRUE, attrs |-> m ]

\* ----------------------------------------------------- positions and ranges
Pos(c, o) == [ parent |-> c, offset |-> o ]
Rng(c, a, b) == [ start |-> Pos(c, a), end |-> Pos(c, b) ]
NoContainer == "none"
NoPosition == Pos(NoContainer, 0)

\* document order of positions: P1 precedes P2
PosLess(p, q) ==
    \/ p.parent = "P1" /\ q.parent = "P2"
    \/ p.parent = q.parent /\ p.offset < q.offset

VARIABLES
    children,        \* the tree: container -> sequence of child nodes
    elemAttrs,       \* the tree: container -> Map of the element's attributes
    _ranges,         \* Selection#_ranges: sequence of LiveRanges
    _attrs,          \* DocumentSelection#_attrs
    pendingChanges,  \* the document's queue of enqueued changes
    openBatch,       \* the transaction (batch) that is open
    _lastRangeBackward, \* Selection#_lastRangeBackward
    subscribers,     \* number of LiveRanges listening to the document's changes
    last             \* the operation that ran last and what it emitted

vars == << children, elemAttrs, _ranges, _attrs, pendingChanges, openBatch,
           _lastRangeBackward, subscribers, last >>

\* ---------------------------------------------------------- tree accessors
getChildCount(ch, c) == IF c \in Containers THEN Len(ch[c]) ELSE 0

\* getChild( index ) is undefined outside 0 .. childCount - 1
hasChild(ch, c, i) == c \in Containers /\ 0 <= i /\ i < Len(ch[c])

getChild(ch, c, i) == ch[c][i + 1]

\* ------------------------------------------------- Selection (base) readers
\* a selection is collapsed when it holds one range and that range is collapsed
isCollapsed(rs) == Len(rs) = 1 /\ rs[1].start = rs[1].end

\* the range that starts first in document order
getFirstRange(rs) ==
    CHOOSE r \in { rs[i] : i \in 1 .. Len(rs) } :
        \A j \in 1 .. Len(rs) : ~PosLess(rs[j].start, r.start)

getFirstPosition(rs) == IF rs = << >> THEN NoPosition ELSE getFirstRange(rs).start

\* the nodes a walk over the first range visits, in document order
RangeItems(ch, rs) ==
    IF rs = << >> THEN << >>
    ELSE LET r == getFirstRange(rs)
         IN  SubSeq(ch[r.start.parent], r.start.offset + 1, r.end.offset)

\* _checkRange: both positions address real locations of the current tree
_checkRange(ch, r) ==
    /\ r.start.parent \in Containers
    /\ r.end.parent = r.start.parent
    /\ 0 <= r.start.offset
    /\ r.start.offset <= r.end.offset
    /\ r.end.offset <= Len(ch[r.start.parent])

\* LiveRange.createFromRange( range ): a new, attached LiveRange
createFromRange(r) == [ start |-> r.start, end |-> r.end, attached |-> TRUE ]

\* ---------------------------------------------------------- attribute store
\* static _getStoreAttributeKey( key )
_getStoreAttributeKey(key) == storePrefix \o key

\* attr[ 0 ].indexOf( storePrefix ) !== -1
HasStorePrefix_anywhere(k) ==
    \E i \in 1 .. Len(k) :
        /\ i + Len(storePrefix) - 1 <= Len(k)
        /\ SubSeq(k, i, i + Len(storePrefix) - 1) = storePrefix

\* attr[ 0 ].indexOf( storePrefix ) === 0
HasStorePrefix(k) ==
    /\ Len(k) >= Len(storePrefix)
    /\ SubSeq(k, 1, Len(storePrefix)) = storePrefix

\* attr[ 0 ].substr( storePrefix.length )
RealKey(k) == SubSeq(k, Len(storePrefix) + 1, Len(k))

\* *_getStoredAttributes(): the [ realKey, value ] pairs it yields, as a Map
_getStoredAttributes(ch, ea, rs) ==
    LET selectionParent == getFirstPosition(rs).parent
    IN  IF isCollapsed(rs) /\ getChildCount(ch, selectionParent) = 0
        THEN LET stored == { k \in DOMAIN ea[selectionParent] : HasStorePrefix(k) }
             IN  [ realKey \in { RealKey(k) : k \in stored } |->
                       ea[selectionParent][CHOOSE k \in stored : RealKey(k) = realKey] ]
        ELSE EmptyMap

\* an enqueued change: the closure and what it captured
Change(kind, parent, key, value, attrs, live) ==
    [ kind |-> kind, parent |-> parent, key |-> key, value |-> value,
      attrs |-> attrs, live |-> live, batch |-> openBatch ]

\* document.enqueueChanges( callback )
enqueueChanges(q, change) == Append(q, change)

\* _removeStoredAttribute without the test of line 192
_removeStoredAttribute_unguarded(ch, rs, q, key) ==
    enqueueChanges(q, Change("removeAttr", getFirstPosition(rs).parent,
                             _getStoreAttributeKey(key), 0, EmptyMap, FALSE))

\* _removeStoredAttribute( key )
_removeStoredAttribute(ch, rs, q, key) ==
    LET selectionParent == getFirstPosition(rs).parent
    IN  IF isCollapsed(rs) /\ getChildCount(ch, selectionParent) = 0
        THEN enqueueChanges(q, Change("removeAttr", selectionParent,
                                       _getStoreAttributeKey(key), 0, EmptyMap, FALSE))
        ELSE q

\* _storeAttribute with the guard reduced to the child count
_storeAttribute_anySelection(ch, rs, q, key, value) ==
    LET selectionParent == getFirstPosition(rs).parent
    IN  IF getChildCount(ch, selectionParent) = 0 /\ rs # << >>
        THEN enqueueChanges(q, Change("setAttr", selectionParent,
                                       _getStoreAttributeKey(key), value, EmptyMap, FALSE))
        ELSE q

\* _storeAttribute whose change runs before the changes enqueued earlier
_storeAttribute_jumpingQueue(ch, rs, q, key, value) ==
    LET selectionParent == getFirstPosition(rs).parent
    IN  IF isCollapsed(rs) /\ getChildCount(ch, selectionParent) = 0
        THEN << Change("setAttr", selectionParent,
                       _getStoreAttributeKey(key), value, EmptyMap, FALSE) >> \o q
        ELSE q

\* _storeAttribute( key, value )
_storeAttribute(ch, rs, q, key, value) ==
    LET selectionParent == getFirstPosition(rs).parent
    IN  IF isCollapsed(rs) /\ getChildCount(ch, selectionParent) = 0
        THEN enqueueChanges(q, Change("setAttr", selectionParent,
                                       _getStoreAttributeKey(key), value, EmptyMap, FALSE))
        ELSE q

\* _setStoredAttributesTo with the test of line 230 reduced to the child count
_setStoredAttributesTo_anySelection(ch, rs, q, attrs, live) ==
    LET selectionParent == getFirstPosition(rs).parent
    IN  IF getChildCount(ch, selectionParent) = 0 /\ rs # << >>
        THEN enqueueChanges(q, Change("setAttrsTo", selectionParent,
                                       << >>, 0, attrs, live))
        ELSE q

\* _setStoredAttributesTo( attrs ): the closure captures the Map object attrs.
\* live = TRUE when that object is this._attrs itself, so that later in-place
\* changes of this._attrs are what the closure iterates when it runs.
_setStoredAttributesTo(ch, rs, q, attrs, live) ==
    LET selectionParent == getFirstPosition(rs).parent
    IN  IF isCollapsed(rs) /\ getChildCount(ch, selectionParent) = 0
        THEN enqueueChanges(q, Change("setAttrsTo", selectionParent,
                                       << >>, 0, attrs, live))
        ELSE q

\* this._attrs is assigned a new Map object: the closures that captured the
\* old object keep it, with the content it has now
Orphan(q, old) ==
    [ i \in 1 .. Len(q) |->
        IF q[i].live THEN [ q[i] EXCEPT !.live = FALSE, !.attrs = old ] ELSE q[i] ]

\* ------------------------------------------------------ attribute operations
\* what a call leaves behind: the Map, the queue, the number of
\* 'change:attribute' events fired
Outcome(attrs, queue, fired) == [ attrs |-> attrs, queue |-> queue, fired |-> fired ]

\* clearAttributes()
clearAttributes(ch, rs, at, q) ==
    Outcome(EmptyMap, _setStoredAttributesTo(ch, rs, q, EmptyMap, FALSE), 1)

\* removeAttribute( key )
removeAttribute(ch, rs, at, q, key) ==
    Outcome(MapDelete(at, key), _removeStoredAttribute(ch, rs, q, key), 1)

\* setAttribute firing only when the Map changed
setAttribute_notifyOnChange(ch, rs, at, q, key, value) ==
    Outcome(MapSet(at, key, value), _storeAttribute(ch, rs, q, key, value),
            IF MapSet(at, key, value) = at THEN 0 ELSE 1)

\* setAttribute( key, value )
setAttribute(ch, rs, at, q, key, value) ==
    Outcome(MapSet(at, key, value), _storeAttribute(ch, rs, q, key, value), 1)

\* setAttributesTo( attrs ): this._attrs becomes a new Map, which the
\* enqueued closure captures
setAttributesTo(ch, rs, at, q, pairs) ==
    Outcome(toMap(pairs), _setStoredAttributesTo(ch, rs, Orphan(q, at), EmptyMap, TRUE), 1)

\* ------------------------------------------------------ attribute resolution
Null == [ found |-> FALSE ]
Some(m) == [ found |-> TRUE, map |-> m ]

\* getAttrsIfCharacter taking a character without attributes for no character
getAttrsIfCharacter_nonEmpty(ch, c, i) ==
    IF hasChild(ch, c, i) /\ getChild(ch, c, i).text /\ getChild(ch, c, i).attrs # EmptyMap
    THEN [ found |-> TRUE, map |-> getChild(ch, c, i).attrs ]
    ELSE [ found |-> FALSE ]

\* getAttrsIfCharacter( node ), node being the child i of c, or undefined
getAttrsIfCharacter(ch, c, i) ==
    IF hasChild(ch, c, i) /\ getChild(ch, c, i).text
    THEN Some(getChild(ch, c, i).attrs)
    ELSE Null

\* the loop without the test attrs === null: the last text item wins
RECURSIVE ScanRange_lastWins(_, _)
ScanRange_lastWins(items, attrs) ==
    IF items = << >> THEN attrs
    ELSE ScanRange_lastWins(Tail(items),
                            IF Head(items).text THEN Some(Head(items).attrs) ELSE attrs)

\* for ( let item of range ) if ( item.type == 'TEXT' && attrs === null ) ...
RECURSIVE ScanRange(_, _)
ScanRange(items, attrs) ==
    IF items = << >> THEN attrs
    ELSE ScanRange(Tail(items),
                   IF Head(items).text /\ ~attrs.found THEN Some(Head(items).attrs) ELSE attrs)

\* while ( node && !attrs ) { node = node.previousSibling; attrs = ... },
\* node being the child i of c
RECURSIVE WalkLeft(_, _, _)
WalkLeft(ch, c, i) ==
    IF ~hasChild(ch, c, i - 1) THEN Null
    ELSE IF getAttrsIfCharacter(ch, c, i - 1).found THEN getAttrsIfCharacter(ch, c, i - 1)
    ELSE WalkLeft(ch, c, i - 1)

\* while ( node && !attrs ) { node = node.nextSibling; attrs = ... }
RECURSIVE WalkRight(_, _, _)
WalkRight(ch, c, i) ==
    IF ~hasChild(ch, c, i + 1) THEN Null
    ELSE IF getAttrsIfCharacter(ch, c, i + 1).found THEN getAttrsIfCharacter(ch, c, i + 1)
    ELSE WalkRight(ch, c, i + 1)

\* the else branch walking right before it walks left
CaretAttrs_rightFirst(ch, ea, rs) ==
    LET position == getFirstPosition(rs)
        c == position.parent
        before == position.offset - 1
        after == position.offset
        a2 == getAttrsIfCharacter(ch, c, before)
        a3 == IF a2.found THEN a2 ELSE getAttrsIfCharacter(ch, c, after)
        a4 == IF a3.found THEN a3
              ELSE IF hasChild(ch, c, after) THEN WalkRight(ch, c, after) ELSE Null
        a5 == IF a4.found THEN a4
              ELSE IF hasChild(ch, c, before) THEN WalkLeft(ch, c, before) ELSE Null
    IN  IF a5.found THEN a5 ELSE Some(_getStoredAttributes(ch, ea, rs))

\* tiers 2 to 6: the else branch of if ( !this.isCollapsed )
CaretAttrs(ch, ea, rs) ==
    LET position == getFirstPosition(rs)
        c == position.parent
        before == position.offset - 1
        after == position.offset
        a2 == getAttrsIfCharacter(ch, c, before)
        a3 == IF a2.found THEN a2 ELSE getAttrsIfCharacter(ch, c, after)
        a4 == IF a3.found THEN a3
              ELSE IF hasChild(ch, c, before) THEN WalkLeft(ch, c, before) ELSE Null
        a5 == IF a4.found THEN a4
              ELSE IF hasChild(ch, c, after) THEN WalkRight(ch, c, after) ELSE Null
    IN  IF a5.found THEN a5 ELSE Some(_getStoredAttributes(ch, ea, rs))

\* a range without text falling through to the tiers of the caret
ResolvedAttrs_fallThrough(ch, ea, rs) ==
    IF ~isCollapsed(rs) /\ ScanRange(RangeItems(ch, rs), Null).found
    THEN ScanRange(RangeItems(ch, rs), Null)
    ELSE CaretAttrs(ch, ea, rs)

\* the value of attrs at line 313
ResolvedAttrs(ch, ea, rs) ==
    IF ~isCollapsed(rs) THEN ScanRange(RangeItems(ch, rs), Null)
    ELSE CaretAttrs(ch, ea, rs)

\* _updateAttributes()
_updateAttributes(ch, ea, rs, at, q) ==
    LET attrs == ResolvedAttrs(ch, ea, rs)
    IN  IF attrs.found
        THEN Outcome(attrs.map, Orphan(q, at), 1)
        ELSE LET cleared == clearAttributes(ch, rs, at, q)
             IN  Outcome(cleared.attrs, cleared.queue, cleared.fired + 1)

\* ------------------------------------------------------------------- flush
\* document.batch() opening a batch of its own
batch_new == openBatch + 1

\* document.batch(): the batch the enqueued closure applies its change on
batch == openBatch

RECURSIVE RemoveKeys(_, _)
RemoveKeys(m, ks) ==
    IF ks = {} THEN m
    ELSE LET k == CHOOSE x \in ks : TRUE
         IN  RemoveKeys(MapDelete(m, k), ks \ { k })

RECURSIVE SetKeys(_, _, _)
SetKeys(m, src, ks) ==
    IF ks = {} THEN m
    ELSE LET k == CHOOSE x \in ks : TRUE
         IN  SetKeys(MapSet(m, _getStoreAttributeKey(k), src[k]), src, ks \ { k })

\* the closure of _setStoredAttributesTo without its removeAttr loop
RunChange_keepStored(ch, ea, rs, at, c) ==
    IF c.kind = "removeAttr" THEN [ ea EXCEPT ![c.parent] = MapDelete(@, c.key) ]
    ELSE IF c.kind = "setAttr" THEN [ ea EXCEPT ![c.parent] = MapSet(@, c.key, c.value) ]
    ELSE LET attrs == IF c.live THEN at ELSE c.attrs
         IN  [ ea EXCEPT ![c.parent] = SetKeys(@, attrs, DOMAIN attrs) ]

\* one enqueued closure runs: the attributes of the tree after it
RunChange(ch, ea, rs, at, c) ==
    IF c.kind = "removeAttr" THEN [ ea EXCEPT ![c.parent] = MapDelete(@, c.key) ]
    ELSE IF c.kind = "setAttr" THEN [ ea EXCEPT ![c.parent] = MapSet(@, c.key, c.value) ]
    ELSE LET stored == _getStoredAttributes(ch, ea, rs)
             attrs == IF c.live THEN at ELSE c.attrs
             removed == RemoveKeys(ea[c.parent],
                                   { _getStoreAttributeKey(k) : k \in DOMAIN stored })
         IN  [ ea EXCEPT ![c.parent] = SetKeys(removed, attrs, DOMAIN attrs) ]

\* the queue runs, first enqueued first
RECURSIVE RunChanges(_, _, _, _, _)
RunChanges(ch, ea, rs, at, q) ==
    IF q = << >> THEN ea
    ELSE RunChanges(ch, RunChange(ch, ea, rs, at, Head(q)), rs, at, Tail(q))

\* --------------------------------------------------------- range operations
\* the LiveRanges of rs that are attached
Attached(rs) == { i \in 1 .. Len(rs) : rs[i].attached }

\* destroy() detaching nothing
destroy_keepingSubscriptions(rs) == rs

\* destroy(): every held LiveRange is detached
destroy(rs) == [ i \in 1 .. Len(rs) |-> [ rs[i] EXCEPT !.attached = FALSE ] ]

\* _pushRange creating the LiveRange before it validates the range
_pushRange_createFirst(ch, rs, range) ==
    [ ranges |-> Append(rs, createFromRange(range)), raised |-> ~_checkRange(ch, range) ]

\* _pushRange( range ): the range list after the call, and whether it threw
_pushRange(ch, rs, range) ==
    IF _checkRange(ch, range)
    THEN [ ranges |-> Append(rs, createFromRange(range)), raised |-> FALSE ]
    ELSE [ ranges |-> rs, raised |-> TRUE ]

\* _popRange(): the last LiveRange is removed and detached
_popRange(rs) == SubSeq(rs, 1, Len(rs) - 1)

\* Selection#setRanges: this._ranges = []; each new range is pushed
RECURSIVE PushAll(_, _, _)
PushAll(ch, rs, newRanges) ==
    IF newRanges = << >> THEN [ ranges |-> rs, raised |-> FALSE ]
    ELSE LET pushed == _pushRange(ch, rs, Head(newRanges))
         IN  IF pushed.raised THEN pushed ELSE PushAll(ch, pushed.ranges, Tail(newRanges))

\* Selection#setRanges( newRanges, isLastBackward ): the ranges are replaced,
\* the attributes are resolved once all are held, 'change:range' is fired
superSetRanges(ch, ea, at, q, newRanges) ==
    LET pushed == PushAll(ch, << >>, newRanges)
    IN  IF pushed.raised
        THEN [ ranges |-> pushed.ranges, raised |-> TRUE, out |-> Outcome(at, q, 0),
               passes |-> 0, seen |-> 0, rangeFired |-> 0 ]
        ELSE [ ranges |-> pushed.ranges, raised |-> FALSE,
               out |-> _updateAttributes(ch, ea, pushed.ranges, at, q),
               passes |-> 1, seen |-> Len(pushed.ranges), rangeFired |-> 1 ]

\* setRanges resolving the attributes on the ranges held before the call
setRanges_resolvingFirst(ch, ea, rs, at, q, newRanges) ==
    LET destroyed == destroy(rs)
        r == superSetRanges(ch, ea, at, q, newRanges)
    IN  [ ranges |-> r.ranges, raised |-> r.raised,
          out |-> IF r.raised \/ rs = << >> THEN r.out
                  ELSE _updateAttributes(ch, ea, rs, at, q),
          passes |-> r.passes, seen |-> r.seen, rangeFired |-> r.rangeFired,
          detached |-> Cardinality(Attached(rs)) - Cardinality(Attached(destroyed)) ]

\* setRanges( newRanges, isLastBackward ): this.destroy(); super.setRanges()
setRanges(ch, ea, rs, at, q, newRanges) ==
    LET destroyed == destroy(rs)
        r == superSetRanges(ch, ea, at, q, newRanges)
    IN  [ ranges |-> r.ranges, raised |-> r.raised, out |-> r.out, passes |-> r.passes,
          seen |-> r.seen, rangeFired |-> r.rangeFired,
          detached |-> Cardinality(Attached(rs)) - Cardinality(Attached(destroyed)) ]

\* LiveRange: a boundary after an insertion of one node at offset o of c;
\* sticky decides a boundary that sits exactly at o
Rebase(p, c, o, sticky) ==
    IF p.parent = c /\ (p.offset > o \/ (p.offset = o /\ ~sticky))
    THEN [ p EXCEPT !.offset = @ + 1 ]
    ELSE p

RebaseAll(rs, c, o, sticky) ==
    [ i \in 1 .. Len(rs) |->
        IF rs[i].attached
        THEN [ rs[i] EXCEPT !.start = Rebase(@, c, o, sticky),
                            !.end = Rebase(@, c, o, sticky) ]
        ELSE rs[i] ]

InsertAt(seq, o, node) == SubSeq(seq, 1, o) \o << node >> \o SubSeq(seq, o + 1, Len(seq))

\* ------------------------------------------------------------------ actions
\* op: the operation; fired: 'change:attribute' events; rangeFired:
\* 'change:range' events; passes: resolution passes; seen: the ranges held
\* when the pass ran; raised: the call threw; idle: a setAttribute call that
\* left this._attrs with the entries it had; applied: for each change a flush
\* ran, the batch open when it was enqueued and the batch it was applied on
Emitted(op, fired, rangeFired, passes, seen, raised, idle, applied) ==
    [ op |-> op, fired |-> fired, rangeFired |-> rangeFired, passes |-> passes,
      seen |-> seen, raised |-> raised, idle |-> idle, applied |-> applied ]

\* an attribute operation is called, the queue of the document holding at
\* most cap enqueued changes after it
AttributeCallUpTo(op, o, cap) ==
    /\ Len(o.queue) <= cap
    /\ _attrs' = o.attrs
    /\ pendingChanges' = o.queue
    /\ last' = Emitted(op, o.fired, 0, 0, 0, FALSE, op = "setAttribute" /\ o.attrs = _attrs, {})
    /\ UNCHANGED << children, elemAttrs, _ranges, openBatch, _lastRangeBackward, subscribers >>

\* an attribute operation is called
AttributeCall(op, o) == AttributeCallUpTo(op, o, MaxQueue)

SetAttribute(key, value) ==
    AttributeCall("setAttribute",
                  setAttribute(children, _ranges, _attrs, pendingChanges, key, value))

RemoveAttribute(key) ==
    AttributeCall("removeAttribute",
                  removeAttribute(children, _ranges, _attrs, pendingChanges, key))

SetAttributesTo(pairs) ==
    AttributeCall("setAttributesTo",
                  setAttributesTo(children, _ranges, _attrs, pendingChanges, pairs))

ClearAttributes ==
    AttributeCall("clearAttributes",
                  clearAttributes(children, _ranges, _attrs, pendingChanges))

\* a resolution pass is requested, the selection holding a range
UpdateAttributes ==
    LET o == _updateAttributes(children, elemAttrs, _ranges, _attrs, pendingChanges)
    IN  /\ _ranges # << >>
        /\ _attrs' = o.attrs
        /\ pendingChanges' = o.queue
        /\ last' = Emitted("_updateAttributes", o.fired, 0, 1, Len(_ranges), FALSE, FALSE, {})
        /\ UNCHANGED << children, elemAttrs, _ranges, openBatch, _lastRangeBackward,
                        subscribers >>

\* setRanges( newRanges, isLastBackward )
SetRanges(newRanges, isLastBackward) ==
    LET r == setRanges(children, elemAttrs, _ranges, _attrs, pendingChanges, newRanges)
    IN  /\ newRanges # << >>
        /\ _ranges' = r.ranges
        /\ subscribers' = subscribers - r.detached + Len(r.ranges)
        /\ _lastRangeBackward' = IF r.raised THEN _lastRangeBackward ELSE isLastBackward
        /\ _attrs' = r.out.attrs
        /\ pendingChanges' = r.out.queue
        /\ last' = Emitted("setRanges", r.out.fired, r.rangeFired, r.passes, r.seen,
                           r.raised, FALSE, {})
        /\ UNCHANGED << children, elemAttrs, openBatch >>

\* removeAllRanges()
RemoveAllRanges ==
    /\ _ranges' = << >>
    /\ subscribers' = subscribers - Cardinality(Attached(_ranges))
    /\ last' = Emitted("removeAllRanges", 0, 1, 0, 0, FALSE, FALSE, {})
    /\ UNCHANGED << children, elemAttrs, _attrs, pendingChanges, openBatch,
                    _lastRangeBackward >>

\* destroy()
Destroy ==
    /\ _ranges' = destroy(_ranges)
    /\ subscribers' = subscribers - Cardinality(Attached(_ranges))
    /\ last' = Emitted("destroy", 0, 0, 0, 0, FALSE, FALSE, {})
    /\ UNCHANGED << children, elemAttrs, _attrs, pendingChanges, openBatch,
                    _lastRangeBackward >>

\* _pushRange( range )
PushRange(range) ==
    LET pushed == _pushRange(children, _ranges, range)
    IN  /\ Len(_ranges) < MaxRanges
        /\ _ranges' = pushed.ranges
        /\ subscribers' = subscribers + (Len(pushed.ranges) - Len(_ranges))
        /\ last' = Emitted("_pushRange", 0, 0, 0, 0, pushed.raised, FALSE, {})
        /\ UNCHANGED << children, elemAttrs, _attrs, pendingChanges, openBatch,
                        _lastRangeBackward >>

\* _popRange()
PopRange ==
    /\ _ranges # << >>
    /\ _ranges' = _popRange(_ranges)
    /\ subscribers' = subscribers - (IF _ranges[Len(_ranges)].attached THEN 1 ELSE 0)
    /\ last' = Emitted("_popRange", 0, 0, 0, 0, FALSE, FALSE, {})
    /\ UNCHANGED << children, elemAttrs, _attrs, pendingChanges, openBatch,
                    _lastRangeBackward >>

\* the enqueued changes run, inside the open batch; ran: the changes that
\* ran, first enqueued first
Flush ==
    /\ pendingChanges # << >>
    /\ elemAttrs' = RunChanges(children, elemAttrs, _ranges, _attrs, pendingChanges)
    /\ pendingChanges' = << >>
    /\ last' = Emitted("flush", 0, 0, 0, 0, FALSE, FALSE,
                       { << pendingChanges[i].batch, batch >> : i \in 1 .. Len(pendingChanges) })
                 @@ [ ran |-> pendingChanges ]
    /\ UNCHANGED << children, _ranges, _attrs, openBatch, _lastRangeBackward, subscribers >>

\* the open batch is closed, its enqueued changes having run; the next opens
CloseBatch ==
    /\ openBatch < MaxBatch
    /\ pendingChanges = << >>
    /\ openBatch' = openBatch + 1
    /\ last' = Emitted("closeBatch", 0, 0, 0, 0, FALSE, FALSE, {})
    /\ UNCHANGED << children, elemAttrs, _ranges, _attrs, pendingChanges,
                    _lastRangeBackward, subscribers >>

\* the document inserts one node at offset o of c while the selection holds a
\* range: the attached LiveRanges are rebased, then the selection resolves
\* its attributes
InsertChild(c, o, node, sticky) ==
    LET ch == [ children EXCEPT ![c] = InsertAt(@, o, node) ]
        rs == RebaseAll(_ranges, c, o, sticky)
        out == _updateAttributes(ch, elemAttrs, rs, _attrs, pendingChanges)
    IN  /\ _ranges # << >>
        /\ Len(children[c]) < MaxChildren
        /\ o <= Len(children[c])
        /\ children' = ch
        /\ _ranges' = rs
        /\ _attrs' = out.attrs
        /\ pendingChanges' = out.queue
        /\ last' = Emitted("insert", out.fired, 0, 1, Len(rs), FALSE, FALSE, {})
        /\ UNCHANGED << elemAttrs, openBatch, _lastRangeBackward, subscribers >>

\* ------------------------------------------------------------------ inputs
\* every range inside one container of the tree, and for each container the
\* caret one offset past its last child (which _checkRange rejects)
RangeInputs(ch) ==
    { r \in { Rng(c, a, b) : c \in Containers, a \in 0 .. MaxDocLen, b \in 0 .. MaxDocLen } :
        r.start.offset <= r.end.offset /\ r.end.offset <= Len(ch[r.start.parent]) }
      \cup { Rng(c, Len(ch[c]) + 1, Len(ch[c]) + 1) : c \in Containers }

\* the ranges given to _pushRange and the lists given to setRanges are made of:
\* a caret in P1, the text of P2, a caret past the end of P2
ListInputs(ch) ==
    { Rng("P1", 0, 0), Rng("P2", 0, 1), Rng("P2", 2, 2) }

RECURSIVE SeqsUpTo(_, _)
SeqsUpTo(S, n) ==
    IF n = 0 THEN { << >> }
    ELSE LET shorter == SeqsUpTo(S, n - 1)
         IN  shorter \cup { Append(q, x) : q \in shorter, x \in S }

\* selections the attribute operations are called in: a caret in P1, a caret
\* after the text of P2, the text of P2, and two carets
Selections ==
    { << Rng("P1", 0, 0) >>,
      << Rng("P2", 1, 1) >>,
      << Rng("P2", 0, 1) >>,
      << Rng("P1", 0, 0), Rng("P2", 0, 0) >> }

\* the children a document under resolution is built from
NodeKinds == { Elem, Char(EmptyMap), Char(MapSet(EmptyMap, KeyB, 1)) }

\* ----------------------------------------------------------- specifications
\* the document the selection is created in: P1 is empty, P2 holds text
InitialDocument == [ P1 |-> << >>, P2 |-> << Char(MapSet(EmptyMap, KeyB, 1)) >> ]

Created ==
    /\ _ranges = << >>
    /\ _attrs = EmptyMap
    /\ pendingChanges = << >>
    /\ openBatch = 1
    /\ _lastRangeBackward = FALSE
    /\ subscribers = 0
    /\ last = Emitted("new", 0, 0, 0, 0, FALSE, FALSE, {})

Init ==
    /\ children = InitialDocument
    /\ elemAttrs = [ P1 |-> MapSet(EmptyMap, KeyOwn, 1), P2 |-> EmptyMap ]
    /\ Created

\* Spec: the attribute operations in every kind of selection, with
\* resolution, flushes and insertions into P1 in between
Next ==
    \/ SetAttribute(KeyB, 1)
    \/ RemoveAttribute(KeyB)
    \/ SetAttributesTo(<< << KeyI, 1 >> >>)
    \/ ClearAttributes
    \/ UpdateAttributes
    \/ \E rs \in Selections : SetRanges(rs, FALSE)
    \/ RemoveAllRanges
    \/ Flush
    \/ \E o \in 0 .. MaxChildren, sticky \in BOOLEAN : InsertChild("P1", o, Elem, sticky)

Spec == Init /\ [][Next]_vars

\* SpecStore: every attribute operation on two keys, between a caret in the
\* empty P1 and the text of P2, with flushes and batches
NextStore ==
    \/ \E kv \in { << KeyB, 1 >>, << KeyB, 2 >>, << KeyI, 1 >> } : SetAttribute(kv[1], kv[2])
    \/ \E k \in { KeyB, KeyI } : RemoveAttribute(k)
    \/ \E pairs \in { << << KeyI, 1 >> >>, << << KeyB, 1 >>, << KeyB, 2 >> >> } :
           SetAttributesTo(pairs)
    \/ ClearAttributes
    \/ UpdateAttributes
    \/ \E rs \in { << Rng("P1", 0, 0) >>, << Rng("P2", 0, 1) >> } : SetRanges(rs, FALSE)
    \/ Flush
    \/ CloseBatch

SpecStore == Init /\ [][NextStore]_vars

\* SpecRanges: the range operations, with every list of ranges
NextRanges ==
    \/ \E rs \in SeqsUpTo(ListInputs(children), MaxRanges), back \in BOOLEAN :
           SetRanges(rs, back)
    \/ RemoveAllRanges
    \/ Destroy
    \/ \E r \in ListInputs(children) : PushRange(r)
    \/ PopRange
    \/ \E o \in 0 .. MaxChildren, sticky \in BOOLEAN : InsertChild("P1", o, Elem, sticky)

SpecRanges == Init /\ [][NextRanges]_vars

\* SpecResolve: resolution over every document P2 of at most MaxDocLen
\* children, P1 being empty; P2 carries stored attributes, P1 none
InitResolve ==
    /\ \E doc \in SeqsUpTo(NodeKinds, MaxDocLen) : children = [ P1 |-> << >>, P2 |-> doc ]
    /\ elemAttrs =
          [ P1 |-> MapSet(EmptyMap, KeyOwn, 1),
            P2 |-> MapSet(MapSet(MapSet(EmptyMap, KeyOwn, 1),
                                 _getStoreAttributeKey(KeyB), 2),
                          _getStoreAttributeKey(KeyI), 1) ]
    /\ Created

NextResolve ==
    \/ \E r \in RangeInputs(children) : SetRanges(<< r >>, FALSE)
    \/ UpdateAttributes

SpecResolve == InitResolve /\ [][NextResolve]_vars

\* SpecCaret: the attribute operations on one key, resolution and flushes
\* with the caret staying in the empty P1 and up to MaxQueue + 1 changes
\* enqueued
NextCaret ==
    \/ \E v \in { 1, 2 } :
           AttributeCallUpTo("setAttribute",
                             setAttribute(children, _ranges, _attrs, pendingChanges, KeyB, v),
                             MaxQueue + 1)
    \/ AttributeCallUpTo("removeAttribute",
                         removeAttribute(children, _ranges, _attrs, pendingChanges, KeyB),
                         MaxQueue + 1)
    \/ AttributeCallUpTo("setAttributesTo",
                         setAttributesTo(children, _ranges, _attrs, pendingChanges,
                                         << << KeyB, 1 >> >>),
                         MaxQueue + 1)
    \/ AttributeCallUpTo("clearAttributes",
                         clearAttributes(children, _ranges, _attrs, pendingChanges),
                         MaxQueue + 1)
    \/ UpdateAttributes
    \/ SetRanges(<< Rng("P1", 0, 0) >>, FALSE)
    \/ Flush

SpecCaret == Init /\ [][NextCaret]_vars

\* ------------------------------------------------------------------ claims
IsAttributeOp(op) ==
    op \in { "setAttribute", "removeAttribute", "setAttributesTo", "clearAttributes" }

\* the selection is one collapsed range whose parent has no children
CaretInChildless ==
    /\ Len(_ranges) = 1
    /\ _ranges[1].start = _ranges[1].end
    /\ children[_ranges[1].start.parent] = << >>

MatchingKind(op) ==
    IF op = "setAttribute" THEN "setAttr"
    ELSE IF op = "removeAttribute" THEN "removeAttr"
    ELSE "setAttrsTo"

\* C1: a call of setAttribute, removeAttribute, setAttributesTo or
\* clearAttributes enqueues one change, of the matching kind and on the parent
\* of the caret, exactly when the selection is collapsed and that parent has
\* no children at the call; in every other state it enqueues nothing; in
\* both it leaves the attributes of the tree as they were.
C1_EnqueuesIffCaretInChildless ==
    [][ IsAttributeOp(last'.op) =>
          /\ elemAttrs' = elemAttrs
          /\ IF CaretInChildless
             THEN /\ Len(pendingChanges') = Len(pendingChanges) + 1
                  /\ pendingChanges'[Len(pendingChanges')].parent = _ranges[1].start.parent
                  /\ pendingChanges'[Len(pendingChanges')].kind = MatchingKind(last'.op)
             ELSE Len(pendingChanges') = Len(pendingChanges) ]_vars

C1_Witness ==
    /\ last.op = "removeAttribute"
    /\ CaretInChildless
    /\ pendingChanges # << >>
    /\ pendingChanges[Len(pendingChanges)].kind = "removeAttr"
    /\ \A k \in DOMAIN elemAttrs["P1"] : ~HasStorePrefix(k)

C3_FiresOncePerCall == IsAttributeOp(last.op) => last.fired = 1

C3_Witness == last.op = "setAttribute" /\ last.idle /\ last.fired = 1

\* C4: a resolution pass fires 'change:attribute' exactly once, whether it
\* adopts attributes or finds none and clears the map.
C4_OneNotificationPerPass == last.passes = 1 => last.fired = 1

Resolved == last.passes = 1 /\ Len(_ranges) = 1

\* the child number i (from 1) of c is a character
TextAt(c, i) == 1 <= i /\ i <= Len(children[c]) /\ children[c][i].text

\* C6: after resolution of a collapsed selection the attribute map is exactly
\* the attributes of the character right before the caret if there is one,
\* and else exactly those of the character right after the caret if there is
\* one; also when those attributes are none.
C6_AdjacentCharacter ==
    (Resolved /\ _ranges[1].start = _ranges[1].end) =>
        LET c == _ranges[1].start.parent
            o == _ranges[1].start.offset
        IN  /\ TextAt(c, o) => _attrs = children[c][o].attrs
            /\ (~TextAt(c, o) /\ TextAt(c, o + 1)) => _attrs = children[c][o + 1].attrs

C6_Witness ==
    /\ Resolved
    /\ _ranges[1] = createFromRange(Rng("P2", 2, 2))
    /\ children["P2"] = << Char(MapSet(EmptyMap, KeyB, 1)), Elem, Char(EmptyMap) >>
    /\ _attrs = EmptyMap

\* C7: after resolution of a selection that is not collapsed and whose first
\* range holds a character, the attribute map is exactly the attributes of
\* the first character of that range, whatever follows it and also when
\* those attributes are none.
C7_FirstCharacterOfRange ==
    (last.passes = 1 /\ _ranges # << >> /\ ~isCollapsed(_ranges)) =>
        LET r == getFirstRange(_ranges)
            c == r.start.parent
            texts == { i \in r.start.offset + 1 .. r.end.offset : TextAt(c, i) }
        IN  texts # {} =>
                _attrs = children[c][CHOOSE i \in texts : \A j \in texts : i <= j].attrs

C7_Witness ==
    /\ Resolved
    /\ _ranges[1] = createFromRange(Rng("P2", 0, 3))
    /\ children["P2"] = << Elem, Char(EmptyMap), Char(MapSet(EmptyMap, KeyB, 1)) >>
    /\ _attrs = EmptyMap

KeyUniverse ==
    { KeyB, KeyI, KeyOwn } \cup { SubSeq(KeyOwn, i, Len(KeyOwn)) : i \in 1 .. Len(KeyOwn) }

\* the attributes of c whose key is 'selection:' + k, under the key k
Decoded(c) ==
    [ k \in { x \in KeyUniverse : storePrefix \o x \in DOMAIN elemAttrs[c] } |->
        elemAttrs[c][storePrefix \o k] ]

\* C9: after resolution of a collapsed selection whose parent holds no
\* character, the attribute map is, if the parent has no children, exactly
\* the attributes of the parent whose key starts with 'selection:', under
\* the key with the prefix stripped (empty when there are none); and empty if
\* the parent has children.
C9_StoreTier ==
    (/\ Resolved
     /\ _ranges[1].start = _ranges[1].end
     /\ \A i \in 1 .. Len(children[_ranges[1].start.parent]) :
            ~TextAt(_ranges[1].start.parent, i))
    => LET c == _ranges[1].start.parent
       IN  /\ DOMAIN _attrs \subseteq KeyUniverse
           /\ _attrs = IF children[c] = << >> THEN Decoded(c) ELSE EmptyMap

C9_Witness ==
    /\ Resolved
    /\ _ranges[1] = createFromRange(Rng("P2", 0, 0))
    /\ children["P2"] = << >>
    /\ KeyOwn \in DOMAIN elemAttrs["P2"]
    /\ _attrs = MapSet(MapSet(EmptyMap, KeyB, 2), KeyI, 1)

\* the change enqueued last
LastChange == pendingChanges[Len(pendingChanges)]

\* C10: with a caret in a childless container, after setAttribute( k, v ) or
\* setAttributesTo( X ) and the flush that follows, the attribute map holds
\* what was set, the container carries 'selection:' + k = v for each entry
\* set, and a resolution pass at the same position yields exactly the
\* attribute map (here: the decoded store of the container equals the map).
C10_RoundTrip ==
    [][ (/\ last.op \in { "setAttribute", "setAttributesTo" }
         /\ CaretInChildless
         /\ last'.op = "flush")
        => LET c == _ranges[1].start.parent
               set == IF LastChange.kind = "setAttr"
                      THEN { k \in DOMAIN _attrs : storePrefix \o k = LastChange.key }
                      ELSE DOMAIN _attrs
           IN  /\ _attrs' = _attrs
               /\ \A k \in set :
                      /\ storePrefix \o k \in DOMAIN elemAttrs'[c]
                      /\ elemAttrs'[c][storePrefix \o k] = _attrs[k]
               /\ LastChange.kind = "setAttr" => set # {} /\ \A k \in set : _attrs[k] = LastChange.value
               /\ Decoded(c)' = _attrs' ]_vars

\* the change clearAttributes enqueues on the container c
ClearChange(x, c) ==
    x.kind = "setAttrsTo" /\ x.parent = c /\ ~x.live /\ x.attrs = EmptyMap

\* C11: with a caret in a childless container, after clearAttributes() and
\* the flush that follows (setAttributesTo( X ) having been called before,
\* flushed or still enqueued), the container carries no attribute whose key
\* starts with 'selection:', its other attributes are as they were, and a
\* resolution pass at the same position yields the empty map.
C11_ClearClearsTheStore ==
    [][ (/\ last.op = "clearAttributes"
         /\ CaretInChildless
         /\ last'.op = "flush")
        => LET c == _ranges[1].start.parent
           IN  /\ \A k \in DOMAIN elemAttrs'[c] : ~HasStorePrefix(k)
               /\ \A k \in DOMAIN elemAttrs[c] :
                      ~HasStorePrefix(k) =>
                          k \in DOMAIN elemAttrs'[c] /\ elemAttrs'[c][k] = elemAttrs[c][k]
               /\ ResolvedAttrs(children', elemAttrs', _ranges') = Some(EmptyMap)
               /\ _attrs' = EmptyMap ]_vars

\* setAttributesTo( { b: 1 } ) and clearAttributes() ran in one flush
C11_Witness ==
    /\ last.op = "flush"
    /\ CaretInChildless
    /\ Len(last.ran) = 2
    /\ last.ran[1].kind = "setAttrsTo" /\ last.ran[1].live
    /\ ClearChange(last.ran[2], "P1")
    /\ DOMAIN elemAttrs["P1"] = { KeyOwn }
    /\ _attrs = EmptyMap

\* the attributes ea gives c whose key is 'selection:' + k, under the key k
DecodedIn(ea, c) ==
    [ k \in { x \in KeyUniverse : storePrefix \o x \in DOMAIN ea[c] } |->
        ea[c][storePrefix \o k] ]

\* the Map the closure of a setAttrsTo change iterates when it runs now
Captured(x) == IF x.live THEN _attrs ELSE x.attrs

\* C12: a setAttributesTo( X ) call made with the caret in a childless
\* container enqueues exactly one change, and when that change is flushed,
\* whatever was called between the call and the flush (a change of the
\* selection, an insertion into the container), the attributes of that
\* container whose key starts with 'selection:' are exactly X encoded: no
\* key stored before is left.  X is { i: 1 }, the one Map given to
\* setAttributesTo in Spec.
C12_ReplaceLeavesNoStaleKey ==
    [][ /\ (last'.op = "setAttributesTo" /\ CaretInChildless)
            => /\ Len(pendingChanges') = Len(pendingChanges) + 1
               /\ LastChange'.kind = "setAttrsTo"
               /\ LastChange'.parent = _ranges[1].start.parent
        /\ (/\ last'.op = "flush"
            /\ Len(pendingChanges) = 1
            /\ pendingChanges[1].kind = "setAttrsTo"
            /\ Captured(pendingChanges[1]) = toMap(<< << KeyI, 1 >> >>))
            => DecodedIn(elemAttrs', pendingChanges[1].parent) = toMap(<< << KeyI, 1 >> >>) ]_vars

\* every held range is an attached LiveRange, and no other subscription exists
NoLeak ==
    /\ \A i \in 1 .. Len(_ranges) : _ranges[i].attached
    /\ subscribers = Len(_ranges)

\* C13: the subscriptions to the document are those of the attached ranges
\* held, in every state; a call of setRanges, removeAllRanges, _pushRange or
\* _popRange made when every held range is attached leaves every held range
\* attached, the ranges it replaced, popped or removed being detached and
\* the ranges it kept being the ones held before; destroy() detaches every
\* held range and drops its subscription, also when called again.
C13_NoLeakedSubscriptions ==
    [][ /\ subscribers = Cardinality(Attached(_ranges))
        /\ subscribers' = Cardinality(Attached(_ranges'))
        /\ (/\ last'.op \in { "setRanges", "removeAllRanges", "_pushRange", "_popRange" }
            /\ NoLeak)
           => /\ NoLeak'
              /\ (last'.op = "removeAllRanges" => _ranges' = << >>)
              /\ (last'.op = "_popRange" =>
                     _ranges' = SubSeq(_ranges, 1, Len(_ranges) - 1))
              /\ (last'.op = "_pushRange" =>
                     IF last'.raised THEN _ranges' = _ranges
                     ELSE /\ Len(_ranges') = Len(_ranges) + 1
                          /\ SubSeq(_ranges', 1, Len(_ranges)) = _ranges
                          /\ _checkRange(children, _ranges'[Len(_ranges')]))
        /\ (last'.op = "destroy"
              => /\ Attached(_ranges') = {}
                 /\ Len(_ranges') = Len(_ranges)
                 /\ subscribers' = 0
                 /\ ~last'.raised) ]_vars

\* a range was pushed onto a held range and popped again
C13_Witness ==
    /\ last.op = "_popRange"
    /\ _ranges = << createFromRange(Rng("P2", 0, 1)) >>
    /\ subscribers = 1

\* C14: a _pushRange call that raises leaves the range list and the
\* subscriptions as they were (no LiveRange created, nothing installed,
\* nothing clamped); a call that returns has appended one attached LiveRange
\* that addresses real locations of the tree; after a setRanges call, raising
\* or not, every held range addresses real locations of the tree.
C14_RejectedRangeNotInstalled ==
    [][ /\ last'.op = "_pushRange"
           => IF last'.raised
              THEN _ranges' = _ranges /\ subscribers' = subscribers
              ELSE /\ Len(_ranges') = Len(_ranges) + 1
                   /\ SubSeq(_ranges', 1, Len(_ranges)) = _ranges
                   /\ _ranges'[Len(_ranges')].attached
                   /\ _checkRange(children, _ranges'[Len(_ranges')])
                   /\ subscribers' = subscribers + 1
        /\ last'.op = "setRanges"
           => /\ \A i \in 1 .. Len(_ranges') :
                     _ranges'[i].attached /\ _checkRange(children, _ranges'[i])
              /\ subscribers' = subscribers - Cardinality(Attached(_ranges)) + Len(_ranges') ]_vars

\* the caret past the end of P2 was pushed onto a held range and rejected
C14_Witness ==
    /\ last.op = "_pushRange"
    /\ last.raised
    /\ _ranges = << createFromRange(Rng("P1", 0, 0)) >>
    /\ subscribers = 1

C16_CallOrderKept ==
    [][ /\ (IsAttributeOp(last'.op) /\ CaretInChildless)
           => /\ last'.fired = 1
              /\ elemAttrs' = elemAttrs
              /\ Len(pendingChanges') = Len(pendingChanges) + 1
              /\ \A i \in 1 .. Len(pendingChanges) :
                     /\ pendingChanges'[i].kind = pendingChanges[i].kind
                     /\ pendingChanges'[i].key = pendingChanges[i].key
                     /\ pendingChanges'[i].value = pendingChanges[i].value
              /\ LET x == pendingChanges'[Len(pendingChanges')]
                 IN  CASE x.kind = "setAttr" ->
                            /\ RealKey(x.key) \in DOMAIN _attrs'
                            /\ _attrs'[RealKey(x.key)] = x.value
                       [] x.kind = "removeAttr" -> RealKey(x.key) \notin DOMAIN _attrs'
                       [] OTHER -> IF x.live THEN last'.op = "setAttributesTo"
                                   ELSE _attrs' = EmptyMap
        /\ (last'.op = "flush" /\ CaretInChildless)
           => LET x == pendingChanges[Len(pendingChanges)]
                  store == elemAttrs'[x.parent]
              IN  /\ x.kind = "setAttr" => x.key \in DOMAIN store /\ store[x.key] = x.value
                  /\ x.kind = "removeAttr" => x.key \notin DOMAIN store
                  /\ x.kind = "setAttrsTo" =>
                         DecodedIn(elemAttrs', x.parent) = Captured(x) ]_vars

\* setAttribute( 'b', 1 ) and setAttribute( 'b', 2 ) ran in one flush
C16_Witness ==
    /\ last.op = "flush"
    /\ CaretInChildless
    /\ Len(last.ran) = 2
    /\ last.ran[1].kind = "setAttr" /\ last.ran[1].value = 1
    /\ last.ran[2].kind = "setAttr" /\ last.ran[2].value = 2
    /\ last.ran[1].key = _getStoreAttributeKey(KeyB)
    /\ last.ran[2].key = _getStoreAttributeKey(KeyB)
    /\ elemAttrs["P1"][_getStoreAttributeKey(KeyB)] = 2
    /\ _attrs = MapSet(EmptyMap, KeyB, 2)

C18_PassLeavesTheStore ==
    [][ last'.passes = 1
        => /\ Len(pendingChanges') = Len(pendingChanges)
           /\ \A i \in 1 .. Len(pendingChanges) :
                  /\ pendingChanges'[i].kind = pendingChanges[i].kind
                  /\ pendingChanges'[i].parent = pendingChanges[i].parent
                  /\ pendingChanges'[i].key = pendingChanges[i].key
                  /\ pendingChanges'[i].value = pendingChanges[i].value
           /\ elemAttrs' = elemAttrs
           /\ (last'.op = "_updateAttributes" => _ranges' = _ranges /\ children' = children)
           /\ (isCollapsed(_ranges')
                 => /\ ResolvedAttrs(children', elemAttrs', _ranges').found
                    /\ last'.fired = 1) ]_vars

\* the pass of setRanges took the clearAttributes path on two carets, the
\* first of them in the empty P1, with a change enqueued
C18_Witness ==
    /\ last.op = "setRanges"
    /\ last.passes = 1
    /\ last.fired = 2
    /\ _ranges = << createFromRange(Rng("P1", 0, 0)), createFromRange(Rng("P2", 0, 0)) >>
    /\ _attrs = EmptyMap
    /\ Len(pendingChanges) = 1

\* C19: whenever the selection is a caret in a childless container and no
\* change is enqueued, the attributes of that container whose key starts
\* with 'selection:', under the key with the prefix stripped, are the
\* attribute map.  In SpecCaret the caret, once set, stays in the empty P1.
C19_StoreIsTheMap ==
    (CaretInChildless /\ pendingChanges = << >>)
        => Decoded(_ranges[1].start.parent) = _attrs

\* C20: a setRanges call that raises leaves the selection with the ranges it
\* held before the call, each still attached, and with the subscriptions it
\* had.
C20_UnchangedOnError ==
    [][ (last'.op = "setRanges" /\ last'.raised)
        => /\ _ranges' = _ranges
           /\ subscribers' = subscribers ]_vars

====
